---- MODULE Spec2Model ----
(***************************************************************************)
(* Model of library/database/mongodb_replset.py: one reconciler process    *)
(* (main) run repeatedly against one replica set.  The replica set is the  *)
(* config document kept by the cluster (local.system.replset); the driver  *)
(* calls of main are the steps of a run.                                   *)
(*                                                                         *)
(* The module also models library/database/ldap.py (runs of main against   *)
(* one directory, SpecLdap) and library/database/ldap_passwd.py (one run   *)
(* of main against one directory, SpecPasswd).  Each specification moves   *)
(* the variables of its own program and leaves the others alone.           *)
(* SpecRace lets two runs of mongodb_replset.py's main take turns on one   *)
(* replica set.                                                            *)
(***************************************************************************)
EXTENDS Integers, Sequences, FiniteSets, TLC

VARIABLES
    conf,         \* the cluster's config document, NoConf before replSetInitiate
    pc,           \* position of the current run inside main
    nodes,        \* split_hosts(hosts): the desired members, list of <<host, port>>
    replset,      \* module.params['replica_set']
    creds,        \* user and password are both set (after read_mongocnf_creds)
    connect,      \* outcome of MongoReplicaSetClient(...)
    client,       \* the client main holds: "none", "rs" or "direct"
    clientHosts,  \* client.hosts: the members the replica-set client discovered
    initiated,    \* main's local `initiated`
    auth,         \* what client.admin.authenticate did in this run
    changed,      \* main's local `changed`
    before,       \* the cluster's config document when the run started
    read,         \* the config document as add_members read it (line 104)
    local,        \* add_members' local `conf` after lines 105-113
    submitted,    \* the replSetInitiate / replSetReconfig command sent in this run
    result,       \* what the run handed to exit_json / fail_json
    repeat,       \* the previous run exited successfully with the same input
    other,        \* the locals of a second run of main that is not at the processor
    switches,     \* how often the two runs have taken turns
    \* ldap.py
    ldir,         \* the directory: the existing DNs and the attributes of each
    lpc,          \* "ready" before the first run of the module, "done" after a run
    lparams,      \* module.params, the parsed LDIF and module.check_mode
    lbefore,      \* the directory when the last run started
    lresult,      \* what the last run handed to exit_json / fail_json
    llog,         \* the write requests the last run sent to the server
    loutcomes,    \* what upsert / delete did with each record of the last run
    lprev,        \* what the run before the last, with the same input, handed over
    \* ldap_passwd.py
    pwd,          \* the directory: the password of each existing entry
    ppc,          \* "ready" before the run of the module, "done" after it
    pparams,      \* module.params
    pbefore,      \* the directory when the run started
    presult       \* what the run handed to exit_json / fail_json

ldapvars == <<ldir, lpc, lparams, lbefore, lresult, llog, loutcomes, lprev>>

passwdvars == <<pwd, ppc, pparams, pbefore, presult>>

\* the variables of the programs other than mongodb_replset.py
others == <<ldapvars, passwdvars, other, switches>>

mongovars == <<conf, pc, nodes, replset, creds, connect, client, clientHosts,
               initiated, auth, changed, before, read, local, submitted, result,
               repeat, other, switches>>

vars == <<mongovars, others>>

runvars == <<nodes, replset, creds, repeat>>

(***************************************************************************)
(* Bounds of the model.                                                    *)
(***************************************************************************)
NumHosts == 3      \* host names m0 .. m(NumHosts-1)
MaxLen == 3        \* longest desired host list
MaxInitLen == 2    \* most members of a set that exists before the first run
MaxInitId == 2     \* largest member _id of such a set
MaxVersion == 3    \* runs start while the config's version is below this

DefaultPort == 27017

Nodes == {<<"m" \o ToString(i), DefaultPort>> : i \in 0..(NumHosts - 1)}
Names == {"rs0", "rs1"}

Range(s) == {s[i] : i \in DOMAIN s}
Injective(s) == \A i, j \in DOMAIN s : s[i] = s[j] => i = j
SeqsUpTo(S, n) == UNION {[1..k -> S] : k \in 1..n}
\* every order in which the elements of a set can be iterated
Orderings(S) == {s \in [1..Cardinality(S) -> S] : Injective(s)}
Max(S) == CHOOSE x \in S : \A y \in S : y <= x

join_colon(iterable) == iterable[1] \o ":" \o ToString(iterable[2])

format_hosts(members) == [i \in DOMAIN members |-> join_colon(members[i])]

\* format_hosts applied to a set: the list's element order is the set's
\* iteration order, so the reported list is kept as the set of its elements
format_hosts_set(members) == {join_colon(x) : x \in members}

\* the driver parses a member's "host:port" string back into a pair
split_host(s) == CHOOSE n \in Nodes : join_colon(n) = s

NoConf == [_id |-> "", version |-> 0, members |-> <<>>]
NoCmd == [cmd |-> "none"]
NoResult == [kind |-> "none"]

\* the cluster stores a member document with the defaults filled in
Normalize(m) ==
    IF "hidden" \in DOMAIN m THEN m
    ELSE [_id |-> m._id, host |-> m.host, hidden |-> FALSE]

ConfHosts(c) == {c.members[i].host : i \in DOMAIN c.members}
ConfIds(c) == {c.members[i]._id : i \in DOMAIN c.members}

\* client.hosts: active and passive members; hidden members and arbiters
\* are not part of it
VisibleHosts(c) ==
    {split_host(c.members[i].host) : i \in {j \in DOMAIN c.members : ~c.members[j].hidden}}

\* replica sets that exist before the first run: k members on the hosts
\* m0 .. m(k-1), with any distinct ids, at least one member not hidden
InitConfs ==
    {[_id |-> "rs0", version |-> 1,
      members |-> [i \in DOMAIN ids |->
                     [_id |-> ids[i],
                      host |-> join_colon(<<"m" \o ToString(i - 1), DefaultPort>>),
                      hidden |-> hid[i]]]] :
        <<ids, hid>> \in
            {t \in SeqsUpTo(0..MaxInitId, MaxInitLen) \X SeqsUpTo(BOOLEAN, MaxInitLen) :
                /\ Len(t[1]) = Len(t[2])
                /\ Injective(t[1])
                /\ \E i \in DOMAIN t[2] : ~t[2][i]}}

\* ldap.py is not running: an empty directory and no parameters
LdapIdle ==
    /\ ldir = <<>>
    /\ lpc = "idle"
    /\ lparams = [state |-> "none"]
    /\ lbefore = <<>>
    /\ lresult = NoResult
    /\ llog = <<>>
    /\ loutcomes = <<>>
    /\ lprev = NoResult

\* ldap_passwd.py is not running
PasswdIdle ==
    /\ pwd = <<>>
    /\ ppc = "idle"
    /\ pparams = [ldap_type |-> "none"]
    /\ pbefore = <<>>
    /\ presult = NoResult

\* the locals of a run of main that has not started
IdleRun ==
    [pc |-> "idle", nodes |-> <<>>, replset |-> "rs0", creds |-> FALSE,
     repeat |-> FALSE, connect |-> "none", client |-> "none",
     clientHosts |-> {}, initiated |-> FALSE, auth |-> "none",
     changed |-> FALSE, before |-> NoConf, read |-> NoConf, local |-> NoConf,
     submitted |-> NoCmd, result |-> NoResult]

\* there is no second run
RaceIdle ==
    /\ other = IdleRun
    /\ switches = 0

Init ==
    /\ RaceIdle
    /\ LdapIdle
    /\ PasswdIdle
    /\ conf \in {NoConf} \cup InitConfs
    /\ pc = "idle"
    /\ nodes = <<>>
    /\ replset = "rs0"
    /\ creds = FALSE
    /\ connect = "none"
    /\ client = "none"
    /\ clientHosts = {}
    /\ initiated = FALSE
    /\ auth = "none"
    /\ changed = FALSE
    /\ before = conf
    /\ read = NoConf
    /\ local = NoConf
    /\ submitted = NoCmd
    /\ result = NoResult
    /\ repeat = FALSE

\* main, line 173 and the locals of a run before its first statement
FreshRun ==
    /\ connect' = "none"
    /\ client' = "none"
    /\ clientHosts' = {}
    /\ initiated' = FALSE
    /\ auth' = "none"
    /\ changed' = FALSE
    /\ before' = conf
    /\ read' = NoConf
    /\ local' = NoConf
    /\ submitted' = NoCmd
    /\ result' = NoResult

\* main, lines 149-173: a run with new parameters
Start ==
    /\ pc = "idle"
    /\ conf.version < MaxVersion
    /\ \E n \in SeqsUpTo(Nodes, MaxLen), r \in Names, c \in BOOLEAN :
        /\ nodes' = n
        /\ replset' = r
        /\ creds' = c
    /\ repeat' = FALSE
    /\ pc' = "connect"
    /\ FreshRun
    /\ UNCHANGED conf
    /\ UNCHANGED others

\* main, lines 149-173: the module is run again with the parameters of the
\* run that just ended
Rerun ==
    /\ pc = "done"
    /\ conf.version < MaxVersion
    /\ repeat' = (result.kind = "exit")
    /\ pc' = "connect"
    /\ FreshRun
    /\ UNCHANGED <<conf, nodes, replset, creds>>
    /\ UNCHANGED others

\* the process of a run has ended; only the cluster's config document lives on
Forget ==
    /\ pc = "done"
    /\ pc' = "idle"
    /\ nodes' = <<>>
    /\ replset' = "rs0"
    /\ creds' = FALSE
    /\ repeat' = FALSE
    /\ FreshRun
    /\ UNCHANGED conf
    /\ UNCHANGED others

Fail(msg) == [kind |-> "fail", msg |-> msg]

\* line 180 without the test of the message: every ConfigurationError
\* selects the initiate path
FallsBackAlways(e) == TRUE

\* main, line 180: the ConfigurationError that selects the initiate path
FallsBack(e) == e = "not_member"

\* a node that has no config, or the config of a set with another name,
\* answers "... is not a member of replica set ..."
NotMember == conf = NoConf \/ conf._id # replset

\* main, lines 174-183 and 191-192: the replica-set-aware connect and the
\* fallback to a direct connection
Connect ==
    /\ pc = "connect"
    /\ \/ /\ ~NotMember
          /\ connect' = "rs_ok"
          /\ client' = "rs"
          /\ clientHosts' = VisibleHosts(conf)
          /\ initiated' = TRUE
          /\ pc' = "auth"
          /\ UNCHANGED result
       \/ \E e \in {"not_member", "config_error"} :
            /\ e = "not_member" => NotMember
            /\ connect' = e
            /\ IF FallsBack(e)
               THEN \/ /\ client' = "direct"      \* MongoClient(host, port)
                       /\ pc' = "auth"
                       /\ UNCHANGED result
                    \/ /\ client' = "none"        \* it raises ConnectionFailure
                       /\ pc' = "done"
                       /\ result' = Fail("unable to connect to database")
               ELSE /\ client' = "none"
                    /\ pc' = "done"
                    /\ result' = Fail("Unable to connect")
            /\ UNCHANGED <<clientHosts, initiated>>
       \/ /\ connect' = "connection_failure"
          /\ pc' = "done"
          /\ result' = Fail("unable to connect to database")
          /\ UNCHANGED <<client, clientHosts, initiated>>
    /\ UNCHANGED <<conf, runvars, auth, changed, before, read, local, submitted>>
    /\ UNCHANGED others

\* lines 188-189 without the `except OperationFailure: pass`
AuthEndsOnAnyFailure(o) == o # "ok"

\* main, lines 186-192: the outcomes of authenticate that end the run; an
\* OperationFailure is swallowed, a ConnectionFailure is reported
AuthEnds(o) == o = "ConnectionFailure"

\* main, lines 185-192: the best-effort authenticate, inside the try block
\* that turns a ConnectionFailure into a failure report
Authenticate ==
    /\ pc = "auth"
    /\ IF creds
       THEN \E o \in {"ok", "OperationFailure", "ConnectionFailure"} :
               /\ auth' = o
               /\ IF AuthEnds(o)
                  THEN /\ pc' = "done"
                       /\ result' = Fail("unable to connect to database")
                  ELSE /\ pc' = "dispatch"
                       /\ UNCHANGED result
       ELSE /\ pc' = "dispatch"
            /\ UNCHANGED <<auth, result>>
    /\ UNCHANGED <<conf, runvars, connect, client, clientHosts, initiated,
                   changed, before, read, local, submitted>>
    /\ UNCHANGED others

\* main, lines 196-197
absent_hosts == clientHosts \ Range(nodes)
new_hosts == Range(nodes) \ clientHosts

\* main, lines 194-203, 210-211 and 216: the branch a run takes
DispatchTarget ==
    IF initiated
    THEN IF absent_hosts # {} THEN "removal"
         ELSE IF new_hosts # {} THEN "add_read"
         ELSE "exit"
    ELSE "initiate"

Dispatch ==
    /\ pc = "dispatch"
    /\ pc' = DispatchTarget
    /\ changed' = (initiated /\ DispatchTarget # "exit")
    /\ UNCHANGED <<conf, runvars, connect, client, clientHosts, initiated, auth,
                   before, read, local, submitted, result>>
    /\ UNCHANGED others

\* line 108 as `new_id = len(conf['members'])`
FirstNewIdByCount(c) == Len(c.members)

\* add_members, line 108
FirstNewId(c) == Max({c.members[i]._id : i \in DOMAIN c.members}) + 1

\* add_members, lines 109-111: the hosts to append, in the order the loop
\* meets them; the loop runs over a set, whose order Python does not fix
AddOrders(c, members) == Orderings(Range(format_hosts(members)) \ ConfHosts(c))

\* lines 109-111 without `new_id += 1`
NewEntriesNoIncrement(c, order) ==
    [i \in DOMAIN order |-> [_id |-> FirstNewId(c), host |-> order[i]]]

\* add_members, lines 108-111: the member documents appended for one order
NewEntries(c, order) ==
    [i \in DOMAIN order |-> [_id |-> FirstNewId(c) + (i - 1), host |-> order[i]]]

\* add_members without line 113
KeepVersion(v) == v

\* add_members, line 113
BumpVersion(v) == v + 1

\* add_members, lines 104-113: read the config, append, bump the version
AddMembers(c, order) ==
    [c EXCEPT !.members = @ \o NewEntries(c, order),
              !.version = BumpVersion(@)]

AddRead ==
    /\ pc = "add_read"
    /\ \/ \E order \in AddOrders(conf, nodes) :
            /\ read' = conf
            /\ local' = AddMembers(conf, order)
            /\ pc' = "add_submit"
       \/ /\ pc' = "addfail"       \* find_one raises OperationFailure
          /\ UNCHANGED <<read, local>>
    /\ UNCHANGED <<conf, runvars, connect, client, clientHosts, initiated, auth,
                   changed, before, submitted, result>>
    /\ UNCHANGED others

\* what the cluster stores when it accepts a submitted config
Stored(c) ==
    [_id |-> c._id,
     version |-> IF "version" \in DOMAIN c THEN c.version ELSE 1,
     members |-> [i \in DOMAIN c.members |-> Normalize(c.members[i])]]

\* add_members, line 114: replSetReconfig is accepted or raises
\* OperationFailure
AddSubmit ==
    /\ pc = "add_submit"
    /\ \E ok \in BOOLEAN :
        /\ submitted' = [cmd |-> "replSetReconfig", conf |-> local, ok |-> ok]
        /\ conf' = IF ok THEN Stored(local) ELSE conf
        /\ pc' = IF ok THEN "exit" ELSE "addfail"
    /\ UNCHANGED <<runvars, connect, client, clientHosts, initiated, auth,
                   changed, before, read, local, result>>
    /\ UNCHANGED others

\* line 132 with ids counted from 1
InitiateConfFromOne(name, members) ==
    [_id |-> name,
     members |-> [i \in DOMAIN members |->
                    [_id |-> i, host |-> join_colon(members[i])]]]

\* replset_initiate, lines 132-133
InitiateConf(name, members) ==
    [_id |-> name,
     members |-> [i \in DOMAIN members |->
                    [_id |-> i - 1, host |-> join_colon(members[i])]]]

\* replset_initiate, line 134, called at main line 218: replSetInitiate is
\* accepted by a node that has no config yet, or raises OperationFailure
Initiate ==
    /\ pc = "initiate"
    /\ \E ok \in {TRUE, FALSE} :
        /\ ok => conf = NoConf
        /\ submitted' = [cmd |-> "replSetInitiate",
                         conf |-> InitiateConf(replset, nodes), ok |-> ok]
        /\ conf' = IF ok THEN Stored(InitiateConf(replset, nodes)) ELSE conf
        /\ pc' = IF ok THEN "init_exit" ELSE "done"
        /\ result' = IF ok THEN result
                     ELSE Fail("Unable to initiate replica set")
    /\ UNCHANGED <<runvars, connect, client, clientHosts, initiated, auth,
                   changed, before, read, local>>
    /\ UNCHANGED others

\* the status document of the config as it was when the run started
members_state_stale == ConfHosts(before)

\* members_state, lines 119-120: the names of the status document's members
members_state == ConfHosts(conf)

Crash == [kind |-> "crash", msg |-> "OperationFailure"]

\* main, lines 199-202: the removal failure; an OperationFailure of the
\* status read is not caught
RemovalFail ==
    /\ pc = "removal"
    /\ \/ result' = [kind |-> "fail",
                     msg |-> "This module doesn't support members removing",
                     absent_hosts |-> format_hosts_set(absent_hosts),
                     members |-> members_state]
       \/ result' = Crash
    /\ pc' = "done"
    /\ UNCHANGED <<conf, runvars, connect, client, clientHosts, initiated, auth,
                   changed, before, read, local, submitted>>
    /\ UNCHANGED others

\* main, lines 206-209: the add failure
AddFail ==
    /\ pc = "addfail"
    /\ \/ result' = [kind |-> "fail",
                     msg |-> "Unable to add new members",
                     new_hosts |-> format_hosts_set(new_hosts),
                     members |-> members_state]
       \/ result' = Crash
    /\ pc' = "done"
    /\ UNCHANGED <<conf, runvars, connect, client, clientHosts, initiated, auth,
                   changed, before, read, local, submitted>>
    /\ UNCHANGED others

\* main, lines 213-215: the result of the add and no-op paths
Exit ==
    /\ pc = "exit"
    /\ \/ result' = [kind |-> "exit",
                     changed |-> changed,
                     added_hosts |-> format_hosts_set(new_hosts),
                     members |-> members_state]
       \/ result' = Crash
    /\ pc' = "done"
    /\ UNCHANGED <<conf, runvars, connect, client, clientHosts, initiated, auth,
                   changed, before, read, local, submitted>>
    /\ UNCHANGED others

\* main, lines 219-221: the result of the initiate path; the status read is
\* inside the try block of replset_initiate
InitExit ==
    /\ pc = "init_exit"
    /\ \/ result' = [kind |-> "exit", changed |-> TRUE, members |-> members_state]
       \/ result' = Fail("Unable to initiate replica set")
    /\ pc' = "done"
    /\ UNCHANGED <<conf, runvars, connect, client, clientHosts, initiated, auth,
                   changed, before, read, local, submitted>>
    /\ UNCHANGED others

Next ==
    \/ Start
    \/ Rerun
    \/ Forget
    \/ Connect
    \/ Authenticate
    \/ Dispatch
    \/ AddRead
    \/ AddSubmit
    \/ Initiate
    \/ RemovalFail
    \/ AddFail
    \/ Exit
    \/ InitExit

Spec == Init /\ [][Next]_vars

\* one run of main from any state of the cluster
NextRun ==
    \/ Start
    \/ Connect
    \/ Authenticate
    \/ Dispatch
    \/ AddRead
    \/ AddSubmit
    \/ Initiate
    \/ RemovalFail
    \/ AddFail
    \/ Exit
    \/ InitExit

SpecRun == Init /\ [][NextRun]_vars

(***************************************************************************)
(* Two runs of main on one replica set.  The processor holds the locals of *)
(* one run; the locals of the other are kept in `other`, and Switch lets   *)
(* the runs take turns between any two driver calls.                       *)
(***************************************************************************)
MaxRaceLen == 2     \* longest desired host list of a run that has a rival
MaxSwitches == 2    \* most turns the two runs take

\* main, lines 149-173: a run of replica_set "rs0" without credentials
RaceStart ==
    /\ pc = "idle"
    /\ conf.version < MaxVersion
    /\ \E n \in SeqsUpTo(Nodes, MaxRaceLen) : nodes' = n
    /\ replset' = "rs0"
    /\ creds' = FALSE
    /\ repeat' = FALSE
    /\ pc' = "connect"
    /\ FreshRun
    /\ UNCHANGED conf
    /\ UNCHANGED others

\* the operating system takes the processor from the run that has it and
\* gives it to the other run
Switch ==
    /\ pc # "idle"
    /\ switches < MaxSwitches
    /\ switches' = switches + 1
    /\ other' = [pc |-> pc, nodes |-> nodes, replset |-> replset, creds |-> creds,
                 repeat |-> repeat, connect |-> connect, client |-> client,
                 clientHosts |-> clientHosts, initiated |-> initiated,
                 auth |-> auth, changed |-> changed, before |-> before,
                 read |-> read, local |-> local, submitted |-> submitted,
                 result |-> result]
    /\ pc' = other.pc
    /\ nodes' = other.nodes
    /\ replset' = other.replset
    /\ creds' = other.creds
    /\ repeat' = other.repeat
    /\ connect' = other.connect
    /\ client' = other.client
    /\ clientHosts' = other.clientHosts
    /\ initiated' = other.initiated
    /\ auth' = other.auth
    /\ changed' = other.changed
    \* a run that has not started has no snapshot of its own yet
    /\ before' = IF other.pc = "idle" THEN conf ELSE other.before
    /\ read' = other.read
    /\ local' = other.local
    /\ submitted' = other.submitted
    /\ result' = other.result
    /\ UNCHANGED <<conf, ldapvars, passwdvars>>

NextRace ==
    \/ RaceStart
    \/ Switch
    \/ Connect
    \/ Authenticate
    \/ Dispatch
    \/ AddRead
    \/ AddSubmit
    \/ Initiate
    \/ RemovalFail
    \/ AddFail
    \/ Exit
    \/ InitExit

SpecRace == Init /\ [][NextRace]_vars

(***************************************************************************)
(* library/database/ldap.py.  The directory is a function from the DNs     *)
(* that exist to the attribute dictionary of each entry, as search_s       *)
(* returns it: attribute name -> set of values.                            *)
(***************************************************************************)
MaxRecords == 2    \* most records of an LDIF, most DNs of a DN list

DNs == {"cn=a", "cn=b"}
\* the attributes of the model and the values each can take
AttrValues == [cn |-> {"x", "y"}, sn |-> {"x"}]
Attrs == DOMAIN AttrValues

\* the attribute dictionaries: at least one attribute, one value each
Entries ==
    UNION {{e \in [D -> UNION {{{v} : v \in AttrValues[a]} : a \in D}] :
               \A a \in D : e[a] \subseteq AttrValues[a]} :
           D \in (SUBSET Attrs) \ {{}}}
Dirs == UNION {[E -> Entries] : E \in SUBSET DNs}
Records == DNs \X Entries
RecordLists == UNION {[1..k -> Records] : k \in 0..MaxRecords}
DnLists == UNION {[1..k -> DNs] : k \in 0..MaxRecords}

\* the server adds or replaces the entry dn
Put(d, dn, e) == [x \in DOMAIN d \cup {dn} |-> IF x = dn THEN e ELSE d[x]]
\* the server deletes the entry dn
Drop(d, dn) == [x \in DOMAIN d \ {dn} |-> d[x]]

\* what a method of LDAPModule leaves behind: the directory, its return
\* value, the write requests it sent and what it did with each item
Ret(d, c, l, o) == [dir |-> d, changed |-> c, log |-> l, outcomes |-> o]

Request(op, dn) == [op |-> op, dn |-> dn]

\* ldap.modlist.addModlist: one (attribute, values) pair per attribute that
\* has a value
addModlist(attrs) == {<<a, attrs[a]>> : a \in {x \in DOMAIN attrs : attrs[x] # {}}}

\* a modifyModlist that replaces every attribute of the new entry, equal to
\* the old one or not
modifyModlistReplaceAll(old_entry, new_entry, ignore_oldexistent) ==
    {<<"add", a, new_entry[a]>> : a \in DOMAIN new_entry}
        \cup {<<"delete", a, {}>> : a \in DOMAIN old_entry \cap DOMAIN new_entry}

\* ldap.modlist.modifyModlist: an attribute of the new entry that the old
\* one lacks is added, one whose values differ is deleted and added again,
\* and an attribute only the old entry has is deleted unless
\* ignore_oldexistent
modifyModlist(old_entry, new_entry, ignore_oldexistent) ==
    {<<"add", a, new_entry[a]>> :
        a \in {x \in DOMAIN new_entry :
                 /\ new_entry[x] # {}
                 /\ x \in DOMAIN old_entry => old_entry[x] # new_entry[x]}}
        \cup
    {<<"delete", a, {}>> :
        a \in {x \in DOMAIN old_entry :
                 IF x \in DOMAIN new_entry
                 THEN old_entry[x] # new_entry[x]
                 ELSE ~ignore_oldexistent}}

\* the server applies the modlist of modify_s to an entry
ApplyMods(e, modlist) ==
    LET dels == {m[2] : m \in {x \in modlist : x[1] = "delete"}}
        adds == {m \in modlist : m[1] = "add"}
        added == {m[2] : m \in adds}
    IN [a \in (DOMAIN e \ dels) \cup added |->
          IF a \in added
          THEN (CHOOSE m \in adds : m[2] = a)[3]
                  \cup (IF a \in DOMAIN e /\ a \notin dels THEN e[a] ELSE {})
          ELSE e[a]]

\* the server applies the modlist of add_s
NewEntry(modlist) ==
    [a \in {m[1] : m \in modlist} |-> (CHOOSE m \in modlist : m[1] = a)[2]]

\* delete, lines 133-141
delete(d, dn, dryrun) ==
    IF dryrun
    THEN Ret(d, TRUE, <<>>, <<"assumed">>)
    ELSE IF dn \in DOMAIN d
         THEN Ret(Drop(d, dn), TRUE, <<Request("delete", dn)>>, <<"deleted">>)
         ELSE Ret(d, FALSE, <<Request("delete", dn)>>, <<"missing">>)

\* insert, lines 155-160
insert(d, dn, attrs, dryrun) ==
    LET modlist == addModlist(attrs)
    IN IF ~dryrun
       THEN Ret(Put(d, dn, NewEntry(modlist)), TRUE, <<Request("add", dn)>>, <<"insert">>)
       ELSE Ret(d, TRUE, <<>>, <<"insert">>)

\* line 165 with remove_unset_attrs passed on as it is
IgnoreOldexistentSame(remove_unset_attrs) == remove_unset_attrs

\* update, line 165: the ignore_oldexistent argument of modifyModlist
IgnoreOldexistent(remove_unset_attrs) == ~remove_unset_attrs

\* line 166 without the test of self.dryrun
SendsAlways(modlist, dryrun) == modlist # {}

\* update, line 166: the condition under which modify_s is called
Sends(modlist, dryrun) == modlist # {} /\ ~dryrun

\* update, lines 162-168
update(d, dn, old_attrs, new_attrs, dryrun, remove_unset_attrs) ==
    LET modlist == modifyModlist(old_attrs, new_attrs,
                                 IgnoreOldexistent(remove_unset_attrs))
    IN Ret(IF Sends(modlist, dryrun) THEN Put(d, dn, ApplyMods(d[dn], modlist)) ELSE d,
           modlist # {},
           IF Sends(modlist, dryrun) THEN <<Request("modify", dn)>> ELSE <<>>,
           <<IF modlist # {} THEN "update" ELSE "same">>)

\* upsert, lines 170-177: search_s raises NO_SUCH_OBJECT for a missing DN
upsert(d, dn, attrs, dryrun, remove_unset_attrs) ==
    IF dn \in DOMAIN d
    THEN update(d, dn, d[dn], attrs, dryrun, remove_unset_attrs)
    ELSE insert(d, dn, attrs, dryrun)

\* the loop of a method: r is what the items before i have left behind
Accumulate(r, s) ==
    Ret(s.dir, r.changed \/ s.changed, r.log \o s.log, r.outcomes \o s.outcomes)

RECURSIVE delete_from(_, _, _, _)
delete_from(r, dn_list, i, dryrun) ==
    IF i > Len(dn_list) THEN r
    ELSE delete_from(Accumulate(r, delete(r.dir, dn_list[i], dryrun)),
                     dn_list, i + 1, dryrun)

\* delete_all, lines 143-153
delete_all(d, dn_list, dryrun) ==
    delete_from(Ret(d, FALSE, <<>>, <<>>), dn_list, 1, dryrun)

RECURSIVE upsert_from(_, _, _, _, _)
upsert_from(r, records, i, dryrun, remove_unset_attrs) ==
    IF i > Len(records) THEN r
    ELSE upsert_from(Accumulate(r, upsert(r.dir, records[i][1], records[i][2],
                                          dryrun, remove_unset_attrs)),
                     records, i + 1, dryrun, remove_unset_attrs)

\* upsert_all, lines 179-190
upsert_all(d, records, dryrun, remove_unset_attrs) ==
    upsert_from(Ret(d, FALSE, <<>>, <<>>), records, 1, dryrun, remove_unset_attrs)

\* the inputs of the module: state=present with the records of the LDIF,
\* state=absent with the list of DNs
LdapParams ==
    {[state |-> "present", records |-> r, dn_list |-> <<>>,
      dryrun |-> c, remove_unset_attrs |-> u] :
        r \in RecordLists, c \in BOOLEAN, u \in BOOLEAN}
    \cup
    {[state |-> "absent", records |-> <<>>, dn_list |-> l,
      dryrun |-> c, remove_unset_attrs |-> FALSE] :
        l \in DnLists, c \in BOOLEAN}

MongoIdle ==
    /\ RaceIdle
    /\ conf = NoConf
    /\ pc = "idle"
    /\ nodes = <<>>
    /\ replset = "rs0"
    /\ creds = FALSE
    /\ connect = "none"
    /\ client = "none"
    /\ clientHosts = {}
    /\ initiated = FALSE
    /\ auth = "none"
    /\ changed = FALSE
    /\ before = NoConf
    /\ read = NoConf
    /\ local = NoConf
    /\ submitted = NoCmd
    /\ result = NoResult
    /\ repeat = FALSE

LdapInit ==
    /\ MongoIdle
    /\ PasswdIdle
    /\ ldir \in Dirs
    /\ lpc = "ready"
    /\ lparams \in LdapParams
    /\ lbefore = ldir
    /\ lresult = NoResult
    /\ llog = <<>>
    /\ loutcomes = <<>>
    /\ lprev = NoResult

\* main, lines 225-243: the items before the k-th are processed; the bind
\* (k = 0) or the request for the k-th item raises LDAPError, or the run
\* gets through the list (k = length + 1).  A dry-run delete sends nothing
\* that could fail.
LdapRun ==
    LET items == IF lparams.state = "absent" THEN lparams.dn_list ELSE lparams.records
    IN \E k \in 0..(Len(items) + 1) :
        LET part == SubSeq(items, 1, k - 1)
            r == IF lparams.state = "absent"
                 THEN delete_all(ldir, part, lparams.dryrun)
                 ELSE upsert_all(ldir, part, lparams.dryrun, lparams.remove_unset_attrs)
        IN /\ (lparams.state = "absent" /\ lparams.dryrun) => k \in {0, Len(items) + 1}
           /\ ldir' = r.dir
           /\ llog' = r.log
           /\ loutcomes' = r.outcomes
           /\ lresult' = IF k = Len(items) + 1
                         THEN [kind |-> "exit", changed |-> r.changed]
                         ELSE Fail("LDAPError")
           /\ lbefore' = ldir
           /\ lpc' = "done"
           /\ UNCHANGED lparams

\* main, lines 205-243: the first run of the module
LdapMain ==
    /\ lpc = "ready"
    /\ lprev' = NoResult
    /\ LdapRun
    /\ UNCHANGED <<mongovars, passwdvars>>

\* main, lines 205-243: the module is run again with the same parameters
\* after a run that exited
LdapAgain ==
    /\ lpc = "done"
    /\ lresult.kind = "exit"
    /\ lprev = NoResult
    /\ lprev' = lresult
    /\ LdapRun
    /\ UNCHANGED <<mongovars, passwdvars>>

LdapNext ==
    \/ LdapMain
    \/ LdapAgain

SpecLdap == LdapInit /\ [][LdapNext]_vars

(***************************************************************************)
(* library/database/ldap_passwd.py.  The directory is a function from the  *)
(* DNs that exist to the password the server accepts for each.             *)
(***************************************************************************)
Users == {"cn=admin", "cn=u1", "cn=u2"}
Passwords == {"p1", "p2"}
PwdDirs == UNION {[E -> Passwords] : E \in SUBSET Users}

\* python values handed to the library
Str(s) == [type |-> "str", val |-> s]
None == [type |-> "NoneType"]
\* the LDAPObject that ldap_connection yields, bound as bind_dn
Conn(bind_dn) == [type |-> "LDAPObject", bound |-> bind_dn]

\* what a library call leaves behind: the directory and the exception raised
Out(d, e) == [dir |-> d, error |-> e]

\* LDAPObject.passwd_s(user, oldpw, newpw) on a connection bound as `bound`:
\* the password modify extended operation for the entry `user`, for the
\* bound entry when user is None; an argument that is neither a string nor
\* None is a TypeError
passwd_s(d, bound, user, newpw) ==
    CASE user.type = "str" ->
            IF user.val \in DOMAIN d
            THEN Out(Put(d, user.val, newpw.val), "none")
            ELSE Out(d, "LDAPError")
      [] user.type = "NoneType" -> Out(Put(d, bound, newpw.val), "none")
      [] OTHER -> Out(d, "TypeError")

\* change_password_ldap, lines 102-103
change_password_ldap(d, conn, user_dn, new_password) ==
    passwd_s(d, conn.bound, conn, new_password)

\* line 107: the password in double quotes, encoded as UTF-16-LE
unicode_pwd(new_password) ==
    [encoding |-> "utf-16-le", text |-> <<"\"", new_password.val, "\"">>]

\* Active Directory sets the password from a replaced unicodePwd value if
\* it is a quoted UTF-16-LE string, and refuses any other value
ad_replace_unicodePwd(d, dn, value) ==
    IF /\ dn \in DOMAIN d
       /\ value.encoding = "utf-16-le"
       /\ Len(value.text) = 3
       /\ value.text[1] = "\""
       /\ value.text[3] = "\""
    THEN Out(Put(d, dn, value.text[2]), "none")
    ELSE Out(d, "LDAPError")

\* change_password_ad, lines 106-109
change_password_ad(d, conn, user_dn, new_password) ==
    ad_replace_unicodePwd(d, user_dn.val, unicode_pwd(new_password))

PasswdParams ==
    [ldap_type : {"ldap", "ad"}, bind_dn : Users, user_dn : Users,
     new_password : Passwords]

PasswdInit ==
    /\ MongoIdle
    /\ LdapIdle
    /\ pwd \in PwdDirs
    /\ ppc = "ready"
    /\ pparams \in PasswdParams
    /\ pbefore = pwd
    /\ presult = NoResult

\* main, lines 112-146: the bind of ldap_connection (lines 94-95) fails or
\* succeeds, then the change_password function of the ldap_type is called
PasswdMain ==
    /\ ppc = "ready"
    /\ \E bound \in BOOLEAN :
        /\ bound => pparams.bind_dn \in DOMAIN pwd
        /\ IF ~bound
           THEN /\ presult' = Fail("LDAPError")
                /\ UNCHANGED pwd
           ELSE LET c == Conn(pparams.bind_dn)
                    o == IF pparams.ldap_type = "ad"
                         THEN change_password_ad(pwd, c, Str(pparams.user_dn),
                                                 Str(pparams.new_password))
                         ELSE change_password_ldap(pwd, c, Str(pparams.user_dn),
                                                   Str(pparams.new_password))
                IN /\ pwd' = o.dir
                   /\ presult' = CASE o.error = "none" -> [kind |-> "exit", changed |-> TRUE]
                                   [] o.error = "LDAPError" -> Fail("LDAPError")
                                   [] OTHER -> [kind |-> "crash", msg |-> o.error]
    /\ ppc' = "done"
    /\ pbefore' = pwd
    /\ UNCHANGED <<pparams, mongovars, ldapvars>>

\* the process of the run has ended
PasswdForget ==
    /\ ppc = "done"
    /\ ppc' = "idle"
    /\ pparams' = [ldap_type |-> "none"]
    /\ pbefore' = pwd
    /\ presult' = NoResult
    /\ UNCHANGED <<pwd, mongovars, ldapvars>>

PasswdNext ==
    \/ PasswdMain
    \/ PasswdForget

SpecPasswd == PasswdInit /\ [][PasswdNext]_vars

(***************************************************************************)
(* Properties.                                                             *)
(***************************************************************************)
IsPrefix(s, t) == Len(s) <= Len(t) /\ \A i \in DOMAIN s : t[i] = s[i]
Tail0(s, n) == [i \in 1..(Len(s) - n) |-> s[n + i]]
FirstIndex(s, x) == CHOOSE i \in DOMAIN s : s[i] = x /\ \A j \in 1..(i - 1) : s[j] # x
HostsOf(c) == [i \in DOMAIN c.members |-> c.members[i].host]
IdsOf(c) == [i \in DOMAIN c.members |-> c.members[i]._id]
\* the run got past the connect and authenticate steps of an initiated set
Diffed == connect = "rs_ok" /\ auth # "ConnectionFailure" /\ pc \notin {"auth", "dispatch"}
\* the member documents a reconfiguration appended to the config it read
Appended == Tail0(submitted.conf.members, Len(read.members))

\* C1: a finished run on an initiated set that found a current member
\* (client.hosts) missing from the desired list ended in a failure report
\* whose absent_hosts are exactly those members, submitted no command and
\* left the config document as it was.
C1_NoSilentRemoval ==
    (pc = "done" /\ Diffed /\ absent_hosts # {}) =>
        /\ result.kind = "fail"
        /\ "absent_hosts" \in DOMAIN result
        /\ result.absent_hosts = format_hosts_set(absent_hosts)
        /\ submitted = NoCmd
        /\ conf = before

\* C2: a run that repeats the input of a run that just exited successfully
\* submits no command, leaves the config document as it was, and if it exits
\* it reports changed = false.
C2_Idempotence ==
    repeat =>
        /\ submitted = NoCmd
        /\ conf = before
        /\ result.kind = "exit" => ~result.changed

\* C3: the config add_members builds appends, to a config whose largest
\* member id is M, members with the ids M+1, M+2, ..., M+k in that order.
C3_MonotonicIds ==
    pc = "add_submit" =>
        /\ IsPrefix(read.members, local.members)
        /\ \A i \in 1..(Len(local.members) - Len(read.members)) :
              local.members[Len(read.members) + i]._id = Max(ConfIds(read)) + i

C3_Witness ==
    /\ pc = "add_submit"
    /\ Len(local.members) >= Len(read.members) + 2
    /\ Max(ConfIds(read)) >= Len(read.members)

\* C4: the version of the config never decreases during a run, an accepted
\* replSetReconfig carries exactly the version read plus 1, and a run that
\* ended as a no-op or in failure left the version as it was.
C4_VersionMonotonicity ==
    /\ conf.version >= before.version
    /\ (submitted.cmd = "replSetReconfig" /\ submitted.ok) =>
          submitted.conf.version = read.version + 1
    /\ (pc = "done" /\ (\/ result.kind \in {"fail", "crash"}
                        \/ result.kind = "exit" /\ ~result.changed)) =>
          conf.version = before.version

\* C5: a run against an initiated set leaves the config document untouched
\* or appends at least one member behind the unchanged existing entries and
\* raises the version; no replSetReconfig carries zero appended members.
C5_AppendOnly ==
    before # NoConf =>
        /\ conf # before =>
              /\ IsPrefix(before.members, conf.members)
              /\ Len(conf.members) > Len(before.members)
              /\ conf.version > before.version
        /\ submitted.cmd = "replSetReconfig" =>
              /\ IsPrefix(read.members, submitted.conf.members)
              /\ Len(submitted.conf.members) > Len(read.members)

\* C6: the config replset_initiate submits is named after the requested
\* replica set and gives the i-th desired host (counted from 0) the id i;
\* an accepted one is what the cluster then holds.
C6_OrderPreservingInitiate ==
    submitted.cmd = "replSetInitiate" =>
        /\ submitted.conf._id = replset
        /\ HostsOf(submitted.conf) = format_hosts(nodes)
        /\ \A i \in DOMAIN nodes : submitted.conf.members[i]._id = i - 1
        /\ submitted.ok =>
              /\ conf._id = replset
              /\ HostsOf(conf) = format_hosts(nodes)
              /\ \A i \in DOMAIN nodes : conf.members[i]._id = i - 1

C6_Witness ==
    /\ submitted.cmd = "replSetInitiate"
    /\ submitted.ok
    /\ Len(nodes) = 3
    /\ Injective(nodes)
    /\ nodes[1][1] = "m2"

\* C7: the hosts one replSetReconfig appends are appended, and so numbered,
\* in the order of their first appearance in the desired host list.
C7_DeterministicAddOrder ==
    submitted.cmd = "replSetReconfig" =>
        \A i, j \in DOMAIN Appended :
            i < j => FirstIndex(format_hosts(nodes), Appended[i].host)
                       < FirstIndex(format_hosts(nodes), Appended[j].host)

\* C8: a host the desired list names more than once is the host of at most
\* one member of any config a run submits.
C8_Deduplicated ==
    submitted # NoCmd =>
        \A i, j \in DOMAIN nodes :
            (i # j /\ nodes[i] = nodes[j]) =>
                Cardinality({k \in DOMAIN submitted.conf.members :
                               submitted.conf.members[k].host = join_colon(nodes[i])}) <= 1

\* C9: the member ids of the config are pairwise distinct, and every
\* (id, host) pair the config held when a run started is still in it.
C9_UniqueIds ==
    conf # NoConf =>
        /\ Injective(IdsOf(conf))
        /\ \A i \in DOMAIN before.members :
              \E j \in DOMAIN conf.members :
                  /\ conf.members[j]._id = before.members[i]._id
                  /\ conf.members[j].host = before.members[i].host

C9_Witness ==
    /\ submitted.cmd = "replSetReconfig"
    /\ submitted.ok
    /\ Len(conf.members) >= Len(before.members) + 2
    /\ IdsOf(before) # [i \in DOMAIN before.members |-> i - 1]

\* C10: replSetInitiate is submitted only over the direct connection taken
\* after the "is not a member of replica set" error, replSetReconfig only
\* over a replica-set connection, and after any other connect failure the
\* run is over with a failure report, no client, no authenticate and no
\* command.
C10_DiscoveryClassification ==
    /\ submitted.cmd = "replSetInitiate" => (connect = "not_member" /\ client = "direct")
    /\ submitted.cmd = "replSetReconfig" => (connect = "rs_ok" /\ client = "rs")
    /\ (connect \in {"config_error", "connection_failure"}
          \/ (connect = "not_member" /\ client = "none")) =>
          /\ pc = "done"
          /\ result.kind = "fail"
          /\ auth = "none"
          /\ submitted = NoCmd
          /\ conf = before

C10_Witness ==
    /\ submitted.cmd = "replSetInitiate"
    /\ connect = "not_member"
    /\ before # NoConf
    /\ pc = "done"

\* the positions of a run inside the branch Dispatch chose
BranchPcs(t) ==
    CASE t = "removal" -> {"removal"}
      [] t = "add_read" -> {"add_read", "add_submit", "addfail", "exit"}
      [] t = "exit" -> {"exit"}
      [] t = "initiate" -> {"initiate", "init_exit"}
\* the results with which a run of that branch can end
BranchEnded(t) ==
    CASE t = "removal" ->
            \/ result = Crash
            \/ result.kind = "fail" /\ result.msg = "This module doesn't support members removing"
      [] t = "add_read" ->
            \/ result = Crash
            \/ result.kind = "exit" /\ submitted.cmd = "replSetReconfig"
            \/ result.kind = "fail" /\ result.msg = "Unable to add new members"
      [] t = "exit" ->
            \/ result = Crash
            \/ result.kind = "exit" /\ submitted = NoCmd
      [] t = "initiate" ->
            /\ submitted.cmd = "replSetInitiate"
            /\ \/ result.kind = "exit"
               \/ result.kind = "fail" /\ result.msg = "Unable to initiate replica set"

\* C11: a finished run holds no open connection.
C11_ConnectionRelease ==
    pc = "done" => client = "none"

\* C12: a run on an initiated set that exits with changed = true reports as
\* added_hosts exactly the hosts of the member documents its accepted
\* replSetReconfig appended; one that exits with changed = false reports no
\* added hosts.
C12_ReportedAddedHosts ==
    (pc = "done" /\ connect = "rs_ok" /\ result.kind = "exit") =>
        IF result.changed
        THEN /\ submitted.cmd = "replSetReconfig"
             /\ submitted.ok
             /\ result.added_hosts = {Appended[i].host : i \in DOMAIN Appended}
        ELSE /\ result.added_hosts = {}
             /\ submitted = NoCmd

\* C13: authenticate is attempted in a run exactly when credentials are
\* available and a connection was made, and a run whose authenticate raised
\* OperationFailure goes on into the branch its input selects and ends with
\* a result of that branch.
C13_BestEffortAuthentication ==
    /\ auth # "none" => (creds /\ connect \in {"rs_ok", "not_member"})
    /\ (creds /\ client # "none" /\ pc # "auth") => auth # "none"
    /\ auth = "OperationFailure" =>
          /\ pc \in {"dispatch", "done"} \cup BranchPcs(DispatchTarget)
          /\ pc = "done" => BranchEnded(DispatchTarget)

C13_Witness ==
    /\ auth = "OperationFailure"
    /\ pc = "done"
    /\ result.kind = "exit"
    /\ submitted.cmd = "replSetReconfig"

\* C14: the members table of a successful result is the status of the
\* config as it is after the run's replSetInitiate or replSetReconfig.
C14_PostConvergenceStatus ==
    (pc = "done" /\ result.kind = "exit") => result.members = ConfHosts(conf)

C14_Witness ==
    /\ pc = "done"
    /\ result.kind = "exit"
    /\ submitted.cmd = "replSetReconfig"
    /\ submitted.ok
    /\ ConfHosts(conf) # ConfHosts(before)

\* C20: a finished run has a structured result, a failure report only if
\* the config document is as it was, and changed = true whenever its
\* replSetInitiate or replSetReconfig was accepted.
C20_AllOrNothing ==
    pc = "done" =>
        /\ result.kind \in {"exit", "fail"}
        /\ result.kind = "fail" => conf = before
        /\ (submitted # NoCmd /\ submitted.ok) =>
              (result.kind = "exit" /\ result.changed)

\* the last run of ldap.py was a state=present run that got through its records
UpsertExited ==
    /\ lpc = "done"
    /\ lparams.state = "present"
    /\ lresult.kind = "exit"
\* the records that name the same DN carry the same attributes
Consistent(records) ==
    \A i, j \in DOMAIN records :
        records[i][1] = records[j][1] => records[i][2] = records[j][2]
Idempotent ==
    /\ lresult.changed = (\E i \in DOMAIN loutcomes : loutcomes[i] \in {"insert", "update"})
    /\ (lprev.kind = "exit" /\ ~lparams.dryrun) =>
          /\ ~lresult.changed
          /\ \A i \in DOMAIN llog : llog[i].op \notin {"add", "modify"}

\* C15 (as stated): upsert_all returns True exactly when a record was
\* inserted or had a non-empty modlist, and a second non-dry-run
\* upsert_all of the same records, after the first got through, sends no
\* add or modify and returns False, for every list of records.
C15_IdempotentApply ==
    UpsertExited => Idempotent

\* C15 (amended): the same, for every list of records in which the records
\* that name the same DN carry the same attributes.
C15_IdempotentApplyConsistent ==
    (UpsertExited /\ Consistent(lparams.records)) => Idempotent

C15_Witness ==
    /\ UpsertExited
    /\ Consistent(lparams.records)
    /\ ~lparams.dryrun
    /\ lprev.kind = "exit"
    /\ lprev.changed
    /\ ~lresult.changed
    /\ Len(lparams.records) > 1

\* C16: a delete_all that got through its list has processed every DN of
\* it, and returns True exactly when an entry named in the list was in the
\* directory before and is not any more.
C16_DeleteAllResult ==
    (lpc = "done" /\ lparams.state = "absent" /\ lresult.kind = "exit") =>
        /\ Len(loutcomes) = Len(lparams.dn_list)
        /\ lresult.changed =
              (\E i \in DOMAIN lparams.dn_list :
                  /\ lparams.dn_list[i] \in DOMAIN lbefore
                  /\ lparams.dn_list[i] \notin DOMAIN ldir)

\* C17: a run with dryrun = True sends no write request and leaves the
\* directory as it was.
C17_CheckMode ==
    (lpc = "done" /\ lparams.dryrun) => (llog = <<>> /\ ldir = lbefore)

C17_Witness ==
    /\ UpsertExited
    /\ lparams.dryrun
    /\ \E i \in DOMAIN loutcomes : loutcomes[i] = "update"
    /\ \E i \in DOMAIN loutcomes : loutcomes[i] = "insert"

\* the DN is named by exactly one record of the list
NamedOnce(dn, records) ==
    Cardinality({i \in DOMAIN records : records[i][1] = dn}) = 1

\* C18: after a non-dry-run upsert of a record over an existing entry, with
\* remove_unset_attrs = no the attributes the record does not mention are
\* as they were and the ones it mentions have its values; with
\* remove_unset_attrs = yes the entry's attributes are the record's.
C18_RemoveUnsetAttrs ==
    (UpsertExited /\ ~lparams.dryrun) =>
        \A i \in DOMAIN lparams.records :
            LET dn == lparams.records[i][1]
                attrs == lparams.records[i][2]
            IN (dn \in DOMAIN lbefore /\ NamedOnce(dn, lparams.records)) =>
                  IF lparams.remove_unset_attrs
                  THEN ldir[dn] = attrs
                  ELSE /\ DOMAIN ldir[dn] = DOMAIN lbefore[dn] \cup DOMAIN attrs
                       /\ \A a \in DOMAIN ldir[dn] :
                            ldir[dn][a] = IF a \in DOMAIN attrs THEN attrs[a]
                                          ELSE lbefore[dn][a]

C18_Witness ==
    /\ UpsertExited
    /\ ~lparams.dryrun
    /\ lparams.remove_unset_attrs
    /\ \E i \in DOMAIN lparams.records :
          LET dn == lparams.records[i][1]
          IN /\ NamedOnce(dn, lparams.records)
             /\ dn \in DOMAIN lbefore
             /\ DOMAIN lbefore[dn] \ DOMAIN lparams.records[i][2] # {}
             /\ ldir[dn] # lbefore[dn]

\* C19: a run of ldap_passwd.py that the directory does not refuse ends
\* successfully, for either ldap_type, and a successful run has set the
\* password of the user_dn entry to new_password and changed no other entry.
C19_PasswdTarget ==
    ppc = "done" =>
        /\ presult.kind \in {"exit", "fail"}
        /\ presult.kind = "exit" =>
              /\ pparams.user_dn \in DOMAIN pbefore
              /\ pwd = Put(pbefore, pparams.user_dn, pparams.new_password)

\* the branch that the desired list and the member list of the config
\* document select: removal failure if a member's host is not desired, add
\* if a desired host is no member, no-op otherwise
ConfigTarget ==
    LET members == ConfHosts(before)
        desired == format_hosts_set(Range(nodes))
    IN IF members \ desired # {} THEN "removal"
       ELSE IF desired \ members # {} THEN "add_read"
       ELSE "exit"

\* C21: a run on an initiated set takes the branch that the desired list and
\* the member list of the config document select, ends with a result of
\* that branch, and appends the desired hosts that are no members of the
\* config document it read.
C21_DecisionsFromConfig ==
    Diffed =>
        /\ pc \in {"done"} \cup BranchPcs(ConfigTarget)
        /\ pc = "done" => BranchEnded(ConfigTarget)
        /\ submitted.cmd = "replSetReconfig" =>
              {Appended[i].host : i \in DOMAIN Appended}
                  = format_hosts_set(Range(nodes)) \ ConfHosts(read)

\* each of the two runs has had its replSetReconfig accepted
BothAccepted ==
    /\ submitted.cmd = "replSetReconfig"
    /\ submitted.ok
    /\ other.submitted.cmd = "replSetReconfig"
    /\ other.submitted.ok
\* both runs read the same config document: neither had submitted when the
\* other read
ReadTogether == BothAccepted /\ read = other.read
OtherAppended == Tail0(other.submitted.conf.members, Len(other.read.members))

\* C22: when two runs read the same config document and the cluster accepts
\* the replSetReconfig of each, both submit the version read plus one, both
\* number their first new member with the largest id read plus one, and the
\* config document is the one that one of them submitted.
C22_UnguardedReadModifyWrite ==
    ReadTogether =>
        /\ submitted.conf.version = read.version + 1
        /\ other.submitted.conf.version = read.version + 1
        /\ \A m \in Range(Appended) \cup Range(OtherAppended) :
              m._id > Max(ConfIds(read))
        /\ Appended # <<>> => Appended[1]._id = Max(ConfIds(read)) + 1
        /\ OtherAppended # <<>> => OtherAppended[1]._id = Max(ConfIds(read)) + 1
        /\ conf \in {Stored(submitted.conf), Stored(other.submitted.conf)}

\* both runs have exited successfully, both appended a member with the same
\* id, and a host that one of them reported as added is not in the config
C22_Witness ==
    /\ ReadTogether
    /\ pc = "done"
    /\ other.pc = "done"
    /\ result.kind = "exit"
    /\ other.result.kind = "exit"
    /\ Appended # <<>>
    /\ OtherAppended # <<>>
    /\ Appended[1]._id = OtherAppended[1]._id
    /\ other.result.added_hosts \ ConfHosts(conf) # {}
====
